---- MODULE Spec2Model ----
(***************************************************************************)
(* A model of the LPS1 -> C compiler of src/lps1_compiler_ast.py: the      *)
(* Lexer, the recursive-descent Parser, the AST nodes' generate_code       *)
(* methods with the CodeGenerator they write to, and the driver main().    *)
(*                                                                         *)
(* A Python string is a sequence of one-character strings (source text) or *)
(* a sequence of string fragments (an emitted line); concatenation is \o.  *)
(* Every brace of an emitted line is a fragment of its own, so braces can  *)
(* be counted.                                                             *)
(***************************************************************************)
EXTENDS Integers, Sequences, FiniteSets, TLC

VARIABLES
    input,      \* the content of the input file (LexSpec: the text given to Lexer)
    pc,         \* position in main() (or "lex" when the lexer is driven alone)
    lexer,      \* the Lexer object: text, pos, line, column, current_char
    token,      \* Parser.token; in LexSpec the token the last call returned
    stack,      \* the parser's pending calls: program / composite / if / while
    ast_root,   \* what Parser.program returned
    err,        \* the exception raised by the lexer or the parser
    uncaught,   \* an exception that left main() without being handled
    diag,       \* what main() printed through its except clauses
    gen,        \* the CodeGenerator object: code, variables, indent_level
    work,       \* the pending generate_code calls
    c_code,     \* the assembled lines of main()
    output,     \* the content of the output file, <<>> while not written
    calls       \* number of get_next_token calls made so far (LexSpec)

vars == <<input, pc, lexer, token, stack, ast_root, err, uncaught, diag,
          gen, work, c_code, output, calls>>

None == "None"

\* Longest source text enumerated exhaustively over Alphabet.
MaxLen == 3
\* Most chunks of a source text put together from Chunks.
MaxChunks == 4
\* Number of get_next_token calls made when the lexer is driven alone.
MaxCalls == 6

-----------------------------------------------------------------------------
(* Characters *)

OperatorChars == {"=", "G", "+", "-", "*", "/", "%", "P", "I", "W", "{", "}", "#", "<"}

WhitespaceChars == {" ", "\t", "\n"}

AsciiLower == {"a", "b", "c", "d", "e", "f", "g", "h", "i", "j", "k", "l", "m",
               "n", "o", "p", "q", "r", "s", "t", "u", "v", "w", "x", "y", "z"}

AsciiDigit == {"0", "1", "2", "3", "4", "5", "6", "7", "8", "9"}

\* The lowercase letters in code point order (str.islower is true of each;
\* U+00E9 is the one non-ASCII letter modelled).
Letters == <<"a", "b", "c", "d", "e", "f", "g", "h", "i", "j", "k", "l", "m",
             "n", "o", "p", "q", "r", "s", "t", "u", "v", "w", "x", "y", "z", "é">>

\* str.islower() of a one-character string.
islower(c) == \E i \in 1..Len(Letters) : Letters[i] = c

\* str.isdigit() of a one-character string: true of the ASCII digits and of
\* other Unicode digit characters, of which SUPERSCRIPT TWO is modelled.
isdigit(c) == c \in AsciiDigit \cup {"²"}

\* Code point order of the letters, as sorted() compares them.
Ord(c) == CHOOSE i \in 1..Len(Letters) : Letters[i] = c

-----------------------------------------------------------------------------
(* Token and Lexer *)

\* start is the offset of the token's first character in Lexer.text (the
\* value of Lexer.pos when the token begins); the code keeps only the line
\* and column, the properties about positions are stated against start.
Token(type, val, line, column, start) ==
    [type |-> type, value |-> val, line |-> line, column |-> column, start |-> start]

NoToken == Token(None, None, 0, 0, 0)

\* No exception: the messages of the exceptions the code raises are modelled
\* by the method raising, the character or token type named, and its position.
NoError == [origin |-> None, found |-> None, line |-> 0, column |-> 0, start |-> 0]

Lexer(text) ==
    LET t == SelectSeq(text, LAMBDA c : c # "\r")
    IN  [text |-> t, pos |-> 0, line |-> 1, column |-> 1,
         current_char |-> IF Len(t) > 0 THEN t[1] ELSE None]

\* advance with the column left to run on over a newline.
advance_without_column_reset(lx) ==
    LET nl == lx.current_char = "\n"
        p  == lx.pos + 1
    IN  [lx EXCEPT !.line   = IF nl THEN @ + 1 ELSE @,
                   !.column = @ + 1,
                   !.pos    = p,
                   !.current_char = IF p >= Len(lx.text) THEN None ELSE lx.text[p + 1]]

advance(lx) ==
    LET nl == lx.current_char = "\n"
        p  == lx.pos + 1
    IN  [lx EXCEPT !.line   = IF nl THEN @ + 1 ELSE @,
                   !.column = (IF nl THEN 0 ELSE @) + 1,
                   !.pos    = p,
                   !.current_char = IF p >= Len(lx.text) THEN None ELSE lx.text[p + 1]]

RECURSIVE skip_whitespace(_)
skip_whitespace(lx) ==
    IF lx.current_char # None /\ lx.current_char \in WhitespaceChars
    THEN skip_whitespace(advance(lx))
    ELSE lx

LexicalError(lx) ==
    [origin |-> "get_next_token", found |-> lx.current_char,
     line |-> lx.line, column |-> lx.column, start |-> lx.pos]

\* The end of input consumed like a character.
end_of_input_advancing(lx) ==
    [lexer |-> advance(lx), error |-> NoError,
     token |-> Token("EOF", None, lx.line, lx.column, lx.pos)]

\* get_next_token once its loop has ended: return Token('EOF', ...).
end_of_input(lx) ==
    [lexer |-> lx, error |-> NoError,
     token |-> Token("EOF", None, lx.line, lx.column, lx.pos)]

\* The result of a call: the lexer after it, the token returned (NoToken
\* when it raised) and the exception raised (None when it returned).
RECURSIVE get_next_token(_)
get_next_token(lx) ==
    IF lx.current_char # None
    THEN IF lx.current_char \in WhitespaceChars
         THEN get_next_token(skip_whitespace(lx))
         ELSE IF lx.current_char \in OperatorChars
         THEN [lexer |-> advance(lx), error |-> NoError,
               token |-> Token(lx.current_char, lx.current_char, lx.line, lx.column, lx.pos)]
         ELSE IF islower(lx.current_char)
         THEN [lexer |-> advance(lx), error |-> NoError,
               token |-> Token("VARIABLE", lx.current_char, lx.line, lx.column, lx.pos)]
         ELSE IF isdigit(lx.current_char)
         THEN [lexer |-> advance(lx), error |-> NoError,
               token |-> Token("NUMBER", lx.current_char, lx.line, lx.column, lx.pos)]
         ELSE [lexer |-> lx, error |-> LexicalError(lx), token |-> NoToken]
    ELSE end_of_input(lx)

-----------------------------------------------------------------------------
(* AST nodes *)

ProgramNode(commands) == [node |-> "Program", commands |-> commands]

AssignCommandNode(var, val) == [node |-> "Assign", var |-> var, value |-> val]

GetCommandNode(var) == [node |-> "Get", var |-> var]

BinaryOperationNode(op, var, left, right) ==
    [node |-> "BinaryOperation", operator |-> op, var |-> var, left |-> left, right |-> right]

PrintCommandNode(val) == [node |-> "Print", value |-> val]

IfCommandNode(comp, cmd) == [node |-> "If", comparison |-> comp, command |-> cmd]

WhileCommandNode(comp, cmd) == [node |-> "While", comparison |-> comp, command |-> cmd]

CompositeCommandNode(commands) == [node |-> "Composite", commands |-> commands]

ComparisonNode(left, op, right) ==
    [node |-> "Comparison", left |-> left, operator |-> op, right |-> right]

ValueNode(val) == [node |-> "Value", value |-> val]

VariableNode(name) == [node |-> "Variable", name |-> name]

NumberNode(val) == [node |-> "Number", value |-> val]

\* No tree (Python's None where a node is expected).
NoNode == [node |-> None]

-----------------------------------------------------------------------------
(* Parser: the methods that call no command(), as functions of the parser   *)
(* state ps = [lexer, token, error, node].  error is the exception raised   *)
(* so far (every operator passes a raised exception on untouched), node the *)
(* value returned.                                                          *)

ParserState(lx, tok) == [lexer |-> lx, token |-> tok, error |-> NoError, node |-> NoNode]

\* raise Exception(...) of a parser method: the message names the current
\* token's type, line and column.
Raise(ps, origin) ==
    [ps EXCEPT !.error = [origin |-> origin, found |-> ps.token.type,
                          line |-> ps.token.line, column |-> ps.token.column,
                          start |-> ps.token.start]]

Return(ps, node) == IF ps.error # NoError THEN ps ELSE [ps EXCEPT !.node = node]

\* eat that checks the token's type and does not read the next token.
eat_without_reading(ps, token_type) ==
    IF ps.error # NoError THEN ps
    ELSE IF ps.token.type = token_type THEN ps
    ELSE Raise(ps, "eat")

eat(ps, token_type) ==
    IF ps.error # NoError THEN ps
    ELSE IF ps.token.type = token_type
    THEN LET r == get_next_token(ps.lexer)
         IN  IF r.error # NoError
             THEN [ps EXCEPT !.lexer = r.lexer, !.error = r.error]
             ELSE [ps EXCEPT !.lexer = r.lexer, !.token = r.token]
    ELSE Raise(ps, "eat")

variable(ps) ==
    IF ps.error # NoError THEN ps
    ELSE IF ps.token.type # "VARIABLE" THEN Raise(ps, "variable")
    ELSE Return(ps, VariableNode(ps.token.value))

value(ps) ==
    IF ps.error # NoError THEN ps
    ELSE IF ps.token.type = "VARIABLE"
    THEN LET var == variable(ps)
         IN  Return(eat(ps, "VARIABLE"), ValueNode(var.node))
    ELSE IF ps.token.type = "NUMBER"
    THEN LET num == NumberNode(ps.token.value)
         IN  Return(eat(ps, "NUMBER"), ValueNode(num))
    ELSE Raise(ps, "value")

\* operator that returns the token's type as it is.
operator_unmapped(ps) ==
    IF ps.error # NoError THEN ps
    ELSE IF ps.token.type \in {"=", "<", "#"}
    THEN Return(eat(ps, ps.token.type), ps.token.type)
    ELSE Raise(ps, "operator")

operator(ps) ==
    IF ps.error # NoError THEN ps
    ELSE IF ps.token.type \in {"=", "<", "#"}
    THEN LET op == IF ps.token.type = "=" THEN "=="
                   ELSE IF ps.token.type = "#" THEN "!="
                   ELSE ps.token.type
         IN  Return(eat(ps, ps.token.type), op)
    ELSE Raise(ps, "operator")

comparison(ps) ==
    IF ps.error # NoError THEN ps
    ELSE IF ps.token.type # "VARIABLE" THEN Raise(ps, "comparison")
    ELSE LET left  == variable(ps)
             op    == operator(eat(ps, "VARIABLE"))
             right == value(op)
         IN  Return(right, ComparisonNode(left.node, op.node, right.node))

assign_command(ps) ==
    LET p1 == eat(ps, "=")
    IN  IF p1.error # NoError THEN p1
        ELSE IF p1.token.type # "VARIABLE" THEN Raise(p1, "assign_command")
        ELSE LET var == variable(p1)
                 val == value(eat(p1, "VARIABLE"))
             IN  Return(val, AssignCommandNode(var.node.name, val.node))

get_command(ps) ==
    LET p1 == eat(ps, "G")
    IN  IF p1.error # NoError THEN p1
        ELSE IF p1.token.type # "VARIABLE" THEN Raise(p1, "get_command")
        ELSE LET var == variable(p1)
             IN  Return(eat(p1, "VARIABLE"), GetCommandNode(var.node.name))

\* The common body of add_command, sub_command, mult_command, div_command
\* and mod_command, which differ in the operator character only.
binary_command(ps, op, origin) ==
    LET p1 == eat(ps, op)
    IN  IF p1.error # NoError THEN p1
        ELSE IF p1.token.type # "VARIABLE" THEN Raise(p1, origin)
        ELSE LET var  == variable(p1)
                 val1 == value(eat(p1, "VARIABLE"))
                 val2 == value(val1)
             IN  Return(val2, BinaryOperationNode(op, var.node.name, val1.node, val2.node))

add_command(ps) == binary_command(ps, "+", "add_command")

sub_command(ps) == binary_command(ps, "-", "sub_command")

mult_command(ps) == binary_command(ps, "*", "mult_command")

div_command(ps) == binary_command(ps, "/", "div_command")

mod_command(ps) == binary_command(ps, "%", "mod_command")

print_command(ps) ==
    LET val == value(eat(ps, "P"))
    IN  Return(val, PrintCommandNode(val.node))

-----------------------------------------------------------------------------
(* CodeGenerator and the generate_code methods.  g is the CodeGenerator    *)
(* object [code, variables, indent_level].  An expression node's method    *)
(* returns the generator after it and the text it returned.                *)

CodeGenerator == [code |-> <<>>, variables |-> {}, indent_level |-> 1]

indent(g) == [i \in 1..g.indent_level |-> "    "]

emit(g, line) == [g EXCEPT !.code = Append(@, line)]

add_variable(g, var) == [g EXCEPT !.variables = @ \cup {var}]

\* A variable reference that does not register its name.
VariableNode_generate_code_unregistered(n, g) == [g |-> g, code |-> <<n.name>>]

VariableNode_generate_code(n, g) == [g |-> add_variable(g, n.name), code |-> <<n.name>>]

NumberNode_generate_code(n, g) == [g |-> g, code |-> <<n.value>>]

ValueNode_generate_code(n, g) ==
    IF n.value.node = "Variable"
    THEN VariableNode_generate_code(n.value, g)
    ELSE NumberNode_generate_code(n.value, g)

ComparisonNode_generate_code(n, g) ==
    LET left  == VariableNode_generate_code(n.left, g)
        right == ValueNode_generate_code(n.right, left.g)
    IN  [g |-> right.g, code |-> left.code \o <<" ", n.operator, " ">> \o right.code]

AssignCommandNode_generate_code(n, g) ==
    LET g1  == add_variable(g, n.var)
        val == ValueNode_generate_code(n.value, g1)
    IN  emit(val.g, indent(val.g) \o <<n.var, " = ">> \o val.code \o <<";">>)

\* Get without the block around its two statements.
GetCommandNode_generate_code_two_lines(n, g) ==
    LET g1 == add_variable(g, n.var)
        g2 == emit(g1, indent(g1) \o <<"gets(str);">>)
    IN  emit(g2, indent(g2) \o <<"sscanf(str, \"%d\", &", n.var, ");">>)

GetCommandNode_generate_code(n, g) ==
    LET g1 == add_variable(g, n.var)
        g2 == emit(g1, indent(g1) \o <<"{", " gets(str);">>)
        g3 == emit(g2, indent(g2) \o <<"sscanf(str, \"%d\", &", n.var, ");">>)
    IN  emit(g3, indent(g3) \o <<"}">>)

BinaryOperationNode_generate_code(n, g) ==
    LET g1    == add_variable(g, n.var)
        left  == ValueNode_generate_code(n.left, g1)
        right == ValueNode_generate_code(n.right, left.g)
    IN  emit(right.g, indent(right.g) \o <<n.var, " = ">> \o left.code
                      \o <<" ", n.operator, " ">> \o right.code \o <<";">>)

PrintCommandNode_generate_code(n, g) ==
    LET val == ValueNode_generate_code(n.value, g)
    IN  emit(val.g, indent(val.g) \o <<"printf(\"%d\\n\", ">> \o val.code \o <<");">>)

\* If without the step in of its body.
IfCommandNode_open_without_indent(n, g) ==
    LET comp == ComparisonNode_generate_code(n.comparison, g)
    IN  emit(comp.g, indent(comp.g) \o <<"if ( ">> \o comp.code \o <<" ) ", "{">>)

\* IfCommandNode.generate_code up to the call of the body's generate_code.
IfCommandNode_open(n, g) ==
    LET comp == ComparisonNode_generate_code(n.comparison, g)
        g1   == emit(comp.g, indent(comp.g) \o <<"if ( ">> \o comp.code \o <<" ) ", "{">>)
    IN  [g1 EXCEPT !.indent_level = @ + 1]

\* WhileCommandNode.generate_code up to the call of the body's generate_code.
WhileCommandNode_open(n, g) ==
    LET comp == ComparisonNode_generate_code(n.comparison, g)
        g1   == emit(comp.g, indent(comp.g) \o <<"while ( ">> \o comp.code \o <<" ) ", "{">>)
    IN  [g1 EXCEPT !.indent_level = @ + 1]

\* CompositeCommandNode.generate_code up to its loop.
CompositeCommandNode_open(n, g) ==
    LET g1 == emit(g, indent(g) \o <<"{">>)
    IN  [g1 EXCEPT !.indent_level = @ + 1]

\* What If, While and Composite do after their children: step the
\* indentation back and close the block.
block_close(g) ==
    LET g1 == [g EXCEPT !.indent_level = @ - 1]
    IN  emit(g1, indent(g1) \o <<"}">>)

-----------------------------------------------------------------------------
(* main(): the assembly of the output *)

Min(S) == CHOOSE x \in S : \A y \in S : Ord(x) <= Ord(y)

\* sorted() of a set of one-letter names.
RECURSIVE sorted(_)
sorted(S) == IF S = {} THEN <<>> ELSE <<Min(S)>> \o sorted(S \ {Min(S)})

\* sep.join(strs), for a sequence of one-fragment strings.
RECURSIVE join(_, _)
join(sep, strs) ==
    IF Len(strs) = 0 THEN <<>>
    ELSE IF Len(strs) = 1 THEN <<strs[1]>>
    ELSE <<strs[1], sep>> \o join(sep, Tail(strs))

\* '\n'.join(lines), each line a sequence of fragments.
RECURSIVE join_lines(_)
join_lines(lines) ==
    IF Len(lines) = 0 THEN <<>>
    ELSE IF Len(lines) = 1 THEN lines[1]
    ELSE lines[1] \o <<"\n">> \o join_lines(Tail(lines))

assemble(g) ==
    LET variables == join(", ", sorted(g.variables))
        decl == IF variables # <<>>
                THEN <<"    int ">> \o variables \o <<";">>
                ELSE <<"    int dummy;">>
    IN  << <<"#include <stdio.h>">>, <<"int main() ", "{">>, decl,
           <<"    char str[512]; // auxiliar na leitura com G">> >>
        \o g.code
        \o << <<"    gets(str);">>, <<"    return 0;">>, <<"}">> >>

-----------------------------------------------------------------------------
(* The source texts *)

Alphabet == {"=", "G", "+", "P", "I", "{", "}", "a", "1", " ", "\n", "@"}

Texts(n) == UNION {[1..k -> Alphabet] : k \in 0..n}

\* I a=0 { +b a 1 1 P b }
SrcNesting ==
    <<"I", " ", "a", "=", "0", " ", "{", " ", "+", "b", " ", "a", " ", "1", " ", "1",
      " ", "P", " ", "b", " ", "}">>

\* I a=0 { +b a 1 P b }
SrcNestingTwoValues ==
    <<"I", " ", "a", "=", "0", " ", "{", " ", "+", "b", " ", "a", " ", "1",
      " ", "P", " ", "b", " ", "}">>

\* =a0 W a<3 { P a +a a 1 }
SrcLoop ==
    <<"=", "a", "0", " ", "W", " ", "a", "<", "3", " ", "{", " ", "P", " ", "a", " ",
      "+", "a", " ", "a", " ", "1", " ", "}">>

\* Gz-yzx*xy2/wx3%vw4 Iv#0Pv   (every arithmetic command, tab and CR LF)
SrcArithmetic ==
    <<"G", "z", "-", "y", "z", "x", "\t", "*", "x", "y", "2", "\r", "\n", "/", "w", "x", "3",
      "%", "v", "w", "4", " ", "I", "v", "#", "0", "P", "v">>

\* W a<1 I a=b { { G a } {} }
SrcDeep ==
    <<"W", "a", "<", "1", "I", "a", "=", "b", "{", "{", "G", "a", "}", "{", "}", "}">>

Examples ==
    { SrcNesting, SrcNestingTwoValues, SrcLoop, SrcArithmetic, SrcDeep,
      <<"=", "1", "a">>,
      <<"P", "é">>, <<"=", "é", "²">>, <<"é">>, <<"²">>, <<"A">>,
      <<"=", "\r", "1", "a">>,
      <<"P", "a", "\n", " ", " ", "@">>,
      <<"P", "a", "\n", "\n", "\t", "G", "1">>,
      <<"W", "a", "<", "1", "{", "P", "a">> }

\* Pieces of programs, put together in every order.
Chunks ==
    { <<"P", "a">>, <<"G", "b">>, <<"=", "c", "b">>, <<"-", "a", "c", "2">>,
      <<"I", "a", "=", "0">>, <<"W", "b", "#", "a">>, <<"{">>, <<"}">> }

RECURSIVE concat(_)
concat(ss) == IF Len(ss) = 0 THEN <<>> ELSE ss[1] \o concat(Tail(ss))

Programs(n) == {concat(ss) : ss \in UNION {[1..k -> Chunks] : k \in 0..n}}

Sources == Texts(MaxLen) \cup Programs(MaxChunks) \cup Examples

-----------------------------------------------------------------------------
(* Parser: program, command, if_command, while_command, composite_command  *)
(* call command() recursively; their pending calls are the frames of       *)
(* stack (innermost first):                                                *)
(*   [kind |-> "program" or "composite", commands, comparison |-> NoNode]  *)
(*       a loop that appends the commands it parses;                       *)
(*   [kind |-> "if" or "while", commands |-> <<>>, comparison]             *)
(*       if_command / while_command waiting for its body.                  *)

Frame(kind, commands, comp) == [kind |-> kind, commands |-> commands, comparison |-> comp]

\* command() is about to be called: a loop's condition holds, or an if or
\* while waits for its body.
AtCommand ==
    /\ pc = "parse"
    /\ stack # <<>>
    /\ \/ stack[1].kind = "program" /\ token.type # "EOF"
       \/ stack[1].kind = "composite" /\ token.type # "}"
       \/ stack[1].kind \in {"if", "while"}

\* A command returns node to its caller: if_command and while_command wrap
\* it and return in turn, a loop appends it.
RECURSIVE deliver(_, _)
deliver(stk, node) ==
    IF stk[1].kind = "if"
    THEN deliver(Tail(stk), IfCommandNode(stk[1].comparison, node))
    ELSE IF stk[1].kind = "while"
    THEN deliver(Tail(stk), WhileCommandNode(stk[1].comparison, node))
    ELSE <<[stk[1] EXCEPT !.commands = Append(@, node)]>> \o Tail(stk)

\* The exception e propagates out of parser.program() to main's try.
Raised(r) ==
    /\ lexer' = r.lexer
    /\ token' = r.token
    /\ err' = r.error
    /\ stack' = <<>>
    /\ pc' = "raised"
    /\ UNCHANGED <<input, ast_root, uncaught, diag, gen, work, c_code, output, calls>>

\* The parser goes on with the lexer and token of r and the pending calls stk.
Parsed(r, stk) ==
    /\ lexer' = r.lexer
    /\ token' = r.token
    /\ stack' = stk
    /\ UNCHANGED <<input, pc, ast_root, err, uncaught, diag, gen, work, c_code, output, calls>>

\* A command method that calls no command() ran to its end.
Leaf(r) == IF r.error # NoError THEN Raised(r) ELSE Parsed(r, deliver(stack, r.node))

\* The parser state a method is called in.
Here == ParserState(lexer, token)

\* Parser.command dispatches on the current token's type; one action for
\* each branch, with the method it calls.
command_assign == AtCommand /\ token.type = "=" /\ Leaf(assign_command(Here))

command_get == AtCommand /\ token.type = "G" /\ Leaf(get_command(Here))

command_add == AtCommand /\ token.type = "+" /\ Leaf(add_command(Here))

command_sub == AtCommand /\ token.type = "-" /\ Leaf(sub_command(Here))

command_mult == AtCommand /\ token.type = "*" /\ Leaf(mult_command(Here))

command_div == AtCommand /\ token.type = "/" /\ Leaf(div_command(Here))

command_mod == AtCommand /\ token.type = "%" /\ Leaf(mod_command(Here))

command_print == AtCommand /\ token.type = "P" /\ Leaf(print_command(Here))

\* if_command up to its call of command().
command_if ==
    /\ AtCommand
    /\ token.type = "I"
    /\ LET comp == comparison(eat(Here, "I"))
       IN  IF comp.error # NoError THEN Raised(comp)
           ELSE Parsed(comp, <<Frame("if", <<>>, comp.node)>> \o stack)

\* while_command up to its call of command().
command_while ==
    /\ AtCommand
    /\ token.type = "W"
    /\ LET comp == comparison(eat(Here, "W"))
       IN  IF comp.error # NoError THEN Raised(comp)
           ELSE Parsed(comp, <<Frame("while", <<>>, comp.node)>> \o stack)

\* composite_command up to its loop.
command_composite ==
    /\ AtCommand
    /\ token.type = "{"
    /\ LET p1 == eat(Here, "{")
       IN  IF p1.error # NoError THEN Raised(p1)
           ELSE Parsed(p1, <<Frame("composite", <<>>, NoNode)>> \o stack)

\* The else branch: raise Exception('Comando inexistente ...').
command_unknown ==
    /\ AtCommand
    /\ token.type \notin {"=", "G", "+", "-", "*", "/", "%", "P", "I", "W", "{"}
    /\ Raised(Raise(Here, "command"))

command ==
    \/ command_assign
    \/ command_get
    \/ command_add
    \/ command_sub
    \/ command_mult
    \/ command_div
    \/ command_mod
    \/ command_print
    \/ command_if
    \/ command_while
    \/ command_composite
    \/ command_unknown

\* composite_command, once its loop ends at "}".
composite_command_end ==
    /\ pc = "parse"
    /\ stack # <<>>
    /\ stack[1].kind = "composite"
    /\ token.type = "}"
    /\ LET p1 == eat(Here, "}")
       IN  IF p1.error # NoError THEN Raised(p1)
           ELSE Parsed(p1, deliver(Tail(stack), CompositeCommandNode(stack[1].commands)))

\* program, once its loop ends at EOF: main goes on after its try.
program_end ==
    /\ pc = "parse"
    /\ stack # <<>>
    /\ stack[1].kind = "program"
    /\ token.type = "EOF"
    /\ ast_root' = ProgramNode(stack[1].commands)
    /\ stack' = <<>>
    /\ pc' = "parsed"
    /\ UNCHANGED <<input, lexer, token, err, uncaught, diag, gen, work, c_code, output, calls>>

-----------------------------------------------------------------------------
(* The walk of the tree.  work holds the pending generate_code calls        *)
(* (innermost first), each a frame [kind, commands, i]: the node kind whose *)
(* method is running ("program", "composite", "if", "while"), the children  *)
(* it generates (the one body of an if or while) and the index of the next. *)

WorkFrame(kind, commands) == [kind |-> kind, commands |-> commands, i |-> 1]

\* A child's generate_code is about to be called.
AtNode ==
    /\ pc = "generate"
    /\ work # <<>>
    /\ work[1].i <= Len(work[1].commands)

CurrentNode == work[1].commands[work[1].i]

\* The child's method ran to its end and left the generator g.
Generated(g) ==
    /\ gen' = g
    /\ work' = [work EXCEPT ![1].i = @ + 1]
    /\ UNCHANGED <<input, pc, lexer, token, stack, ast_root, err, uncaught, diag,
                   c_code, output, calls>>

\* The child's method emitted its header, left the generator g, and now
\* generates its own children.
Opened(g, kind, commands) ==
    /\ gen' = g
    /\ work' = <<WorkFrame(kind, commands)>> \o [work EXCEPT ![1].i = @ + 1]
    /\ UNCHANGED <<input, pc, lexer, token, stack, ast_root, err, uncaught, diag,
                   c_code, output, calls>>

\* cmd.generate_code(code_generator) dispatches on the node's class; one
\* action for each class of command.
generate_Assign ==
    AtNode /\ CurrentNode.node = "Assign"
           /\ Generated(AssignCommandNode_generate_code(CurrentNode, gen))

generate_Get ==
    AtNode /\ CurrentNode.node = "Get"
           /\ Generated(GetCommandNode_generate_code(CurrentNode, gen))

generate_BinaryOperation ==
    AtNode /\ CurrentNode.node = "BinaryOperation"
           /\ Generated(BinaryOperationNode_generate_code(CurrentNode, gen))

generate_Print ==
    AtNode /\ CurrentNode.node = "Print"
           /\ Generated(PrintCommandNode_generate_code(CurrentNode, gen))

generate_If ==
    AtNode /\ CurrentNode.node = "If"
           /\ Opened(IfCommandNode_open(CurrentNode, gen), "if", <<CurrentNode.command>>)

generate_While ==
    AtNode /\ CurrentNode.node = "While"
           /\ Opened(WhileCommandNode_open(CurrentNode, gen), "while", <<CurrentNode.command>>)

generate_Composite ==
    AtNode /\ CurrentNode.node = "Composite"
           /\ Opened(CompositeCommandNode_open(CurrentNode, gen), "composite", CurrentNode.commands)

generate_code ==
    \/ generate_Assign
    \/ generate_Get
    \/ generate_BinaryOperation
    \/ generate_Print
    \/ generate_If
    \/ generate_While
    \/ generate_Composite

\* An If, While or Composite has generated its children.
generate_code_end ==
    /\ pc = "generate"
    /\ work # <<>>
    /\ work[1].kind \in {"if", "while", "composite"}
    /\ work[1].i > Len(work[1].commands)
    /\ gen' = block_close(gen)
    /\ work' = Tail(work)
    /\ UNCHANGED <<input, pc, lexer, token, stack, ast_root, err, uncaught, diag,
                   c_code, output, calls>>

\* ProgramNode.generate_code has generated every command.
ProgramNode_generate_code_end ==
    /\ pc = "generate"
    /\ work # <<>>
    /\ work[1].kind = "program"
    /\ work[1].i > Len(work[1].commands)
    /\ work' = <<>>
    /\ pc' = "generated"
    /\ UNCHANGED <<input, lexer, token, stack, ast_root, err, uncaught, diag, gen,
                   c_code, output, calls>>

-----------------------------------------------------------------------------
(* main() *)

Diagnostic(message, e) == [message |-> message, error |-> e]

WriteError == [origin |-> "write", found |-> None, line |-> 0, column |-> 0, start |-> 0]

\* f.read() of a file opened in text mode: "\r\n" and "\r" are read as "\n".
RECURSIVE read(_)
read(s) ==
    IF Len(s) = 0 THEN <<>>
    ELSE IF s[1] = "\r"
    THEN <<"\n">> \o read(IF Len(s) >= 2 /\ s[2] = "\n" THEN Tail(Tail(s)) ELSE Tail(s))
    ELSE <<s[1]>> \o read(Tail(s))

\* parser = Parser(lexer): Parser.__init__ reads the first token, outside
\* main's try.
main_Parser ==
    /\ pc = "start"
    /\ LET r == get_next_token(lexer)
       IN  /\ lexer' = r.lexer
           /\ IF r.error # NoError
              THEN /\ err' = r.error
                   /\ uncaught' = r.error
                   /\ pc' = "crashed"
                   /\ UNCHANGED <<token, stack>>
              ELSE /\ token' = r.token
                   /\ stack' = <<Frame("program", <<>>, NoNode)>>
                   /\ pc' = "parse"
                   /\ UNCHANGED <<err, uncaught>>
    /\ UNCHANGED <<input, ast_root, diag, gen, work, c_code, output, calls>>

\* except Exception as e: print(f'Erro de análise: {e}'); return
main_except ==
    /\ pc = "raised"
    /\ diag' = Append(diag, Diagnostic("Erro de análise", err))
    /\ pc' = "returned"
    /\ UNCHANGED <<input, lexer, token, stack, ast_root, err, uncaught, gen, work,
                   c_code, output, calls>>

\* code_generator = CodeGenerator(); ast_root.generate_code(code_generator)
main_generate ==
    /\ pc = "parsed"
    /\ gen' = CodeGenerator
    /\ work' = <<WorkFrame("program", ast_root.commands)>>
    /\ pc' = "generate"
    /\ UNCHANGED <<input, lexer, token, stack, ast_root, err, uncaught, diag,
                   c_code, output, calls>>

main_assemble ==
    /\ pc = "generated"
    /\ c_code' = assemble(gen)
    /\ pc' = "write"
    /\ UNCHANGED <<input, lexer, token, stack, ast_root, err, uncaught, diag, gen,
                   work, output, calls>>

\* f.write('\n'.join(c_code))
main_write ==
    /\ pc = "write"
    /\ output' = join_lines(c_code)
    /\ pc' = "done"
    /\ UNCHANGED <<input, lexer, token, stack, ast_root, err, uncaught, diag, gen,
                   work, c_code, calls>>

\* The output file cannot be opened for writing.
main_write_except ==
    /\ pc = "write"
    /\ diag' = Append(diag, Diagnostic("Erro ao escrever o arquivo de saída", WriteError))
    /\ pc' = "returned"
    /\ UNCHANGED <<input, lexer, token, stack, ast_root, err, uncaught, gen, work,
                   c_code, output, calls>>

\* main() after input_code = f.read() and lexer = Lexer(input_code).
Init ==
    /\ input \in Sources
    /\ pc = "start"
    /\ lexer = Lexer(read(input))
    /\ token = NoToken
    /\ stack = <<>>
    /\ ast_root = NoNode
    /\ err = NoError
    /\ uncaught = NoError
    /\ diag = <<>>
    /\ gen = CodeGenerator
    /\ work = <<>>
    /\ c_code = <<>>
    /\ output = <<>>
    /\ calls = 0

Next ==
    \/ main_Parser
    \/ command
    \/ composite_command_end
    \/ program_end
    \/ main_except
    \/ main_generate
    \/ generate_code
    \/ generate_code_end
    \/ ProgramNode_generate_code_end
    \/ main_assemble
    \/ main_write
    \/ main_write_except

Spec == Init /\ [][Next]_vars

-----------------------------------------------------------------------------
(* The lexer driven alone: a caller that calls get_next_token MaxCalls times *)
(* whatever it returned or raised.  token and err are the last call's result. *)

lex_call ==
    /\ pc = "lex"
    /\ calls < MaxCalls
    /\ LET r == get_next_token(lexer)
       IN  /\ lexer' = r.lexer
           /\ token' = r.token
           /\ err' = r.error
    /\ calls' = calls + 1
    /\ UNCHANGED <<input, pc, stack, ast_root, uncaught, diag, gen, work, c_code, output>>

LexInit ==
    /\ input \in Sources
    /\ pc = "lex"
    /\ lexer = Lexer(input)
    /\ token = NoToken
    /\ stack = <<>>
    /\ ast_root = NoNode
    /\ err = NoError
    /\ uncaught = NoError
    /\ diag = <<>>
    /\ gen = CodeGenerator
    /\ work = <<>>
    /\ c_code = <<>>
    /\ output = <<>>
    /\ calls = 0

LexNext == lex_call

LexSpec == LexInit /\ [][LexNext]_vars

-----------------------------------------------------------------------------
(* Properties *)

\* main() has ended: it returned, or an exception left it.
Ended == pc \in {"crashed", "returned", "done"}

\* C1: whenever lexing or parsing fails, at whatever token, main() reports
\* exactly one diagnostic for the failure through its except clause and
\* returns without writing the output file.
C1_FailureReportedOnce ==
    (Ended /\ err # NoError) =>
        /\ pc = "returned"
        /\ uncaught = NoError
        /\ Len(diag) = 1
        /\ diag[1] = Diagnostic("Erro de análise", err)
        /\ output = <<>>

RECURSIVE HasEmptyComposite(_)
HasEmptyComposite(n) ==
    IF n.node \in {"Program", "Composite"}
    THEN \/ n.node = "Composite" /\ n.commands = <<>>
         \/ \E i \in 1..Len(n.commands) : HasEmptyComposite(n.commands[i])
    ELSE IF n.node \in {"If", "While"}
    THEN HasEmptyComposite(n.command)
    ELSE FALSE

\* C2: no CompositeCommandNode of a tree returned by Parser.program has an
\* empty command list ("{" immediately followed by "}" is rejected).
C2_NoEmptyComposite ==
    ast_root.node = "Program" => ~HasEmptyComposite(ast_root)

\* If(a == 0, Composite(Add(b, a, 1), Print(b)))
NestingTree ==
    ProgramNode(<<
        IfCommandNode(
            ComparisonNode(VariableNode("a"), "==", ValueNode(NumberNode("0"))),
            CompositeCommandNode(<<
                BinaryOperationNode("+", "b", ValueNode(VariableNode("a")),
                                    ValueNode(NumberNode("1"))),
                PrintCommandNode(ValueNode(VariableNode("b"))) >>)) >>)

NestingCode ==
    << <<"    ", "if ( ", "a", " ", "==", " ", "0", " ) ", "{">>,
       <<"    ", "    ", "{">>,
       <<"    ", "    ", "    ", "b", " = ", "a", " ", "+", " ", "1", ";">>,
       <<"    ", "    ", "    ", "printf(\"%d\\n\", ", "b", ");">>,
       <<"    ", "    ", "}">>,
       <<"    ", "}">> >>

\* C3 as stated: the source `I a=0 { +b a 1 1 P b }` parses into an If whose
\* body is a Composite of an Add and a Print, and generation emits the
\* nested, indented lines.
C3_NestingAsStated ==
    (input = SrcNesting /\ Ended) =>
        /\ ast_root = NestingTree
        /\ gen.code = NestingCode

\* C3 amended: `I a=0 { +b a 1 1 P b }` is rejected at the second `1` (an
\* Add takes two values; line 1, column 16, no tree, no output), and with
\* that `1` left out, `I a=0 { +b a 1 P b }`, the source parses into the
\* tree and generates the nested, indented lines.
C3_NestingTwoValues ==
    /\ (input = SrcNesting /\ Ended) =>
          /\ ast_root = NoNode
          /\ err = [origin |-> "command", found |-> "NUMBER", line |-> 1,
                    column |-> 16, start |-> 15]
          /\ gen.code = <<>>
          /\ output = <<>>
    /\ (input = SrcNestingTwoValues /\ pc \notin {"start", "parse"}) =>
          /\ err = NoError
          /\ ast_root = NestingTree
    /\ (input = SrcNestingTwoValues /\ pc \in {"generated", "write", "done", "returned"}) =>
          /\ gen.code = NestingCode
          /\ gen.indent_level = 1

C3_Witness == input = SrcNestingTwoValues /\ pc = "done" /\ gen.code = NestingCode

\* The letters of the source: the characters the lexer makes VARIABLE tokens of.
SourceLetters == {lexer.text[i] : i \in {j \in 1..Len(lexer.text) : islower(lexer.text[j])}}

\* The names a declaration line lists, in its order.
DeclaredNames(line) == SelectSeq(line, LAMBDA f : islower(f))

\* C4: after the walk CodeGenerator.variables is exactly the set of letters
\* of the source, and the declaration line lists each once, ascending, or is
\* the placeholder 'dummy' exactly when there is none.
C4_DeclarationComplete ==
    /\ pc \in {"generated", "write", "done"} => gen.variables = SourceLetters
    /\ c_code # <<>> =>
          LET decl  == c_code[3]
              names == DeclaredNames(decl)
          IN  /\ (decl = <<"    int dummy;">>) <=> (SourceLetters = {})
              /\ {names[i] : i \in 1..Len(names)} = SourceLetters
              /\ \A i, j \in 1..Len(names) : i < j => Ord(names[i]) < Ord(names[j])
              /\ SourceLetters # {} => Len(decl) = 2 * Len(names) + 1

C4_Witness ==
    /\ pc = "done"
    /\ Cardinality(gen.variables) >= 3
    /\ \E i \in 1..Len(ast_root.commands) : ast_root.commands[i].node \in {"If", "While"}

\* C5: once get_next_token has returned an EOF token, every later call
\* returns the same EOF token, raises nothing and leaves the lexer as it is.
C5_EofForever ==
    [][(pc = "lex" /\ token.type = "EOF") =>
           (token'.type = "EOF" /\ err' = NoError /\ lexer' = lexer
            /\ token'.line = token.line /\ token'.column = token.column)]_vars

\* Two calls at least were made after the input was exhausted.
C5_Witness ==
    /\ pc = "lex"
    /\ token.type = "EOF"
    /\ Len(lexer.text) > 0
    /\ calls >= Len(lexer.text) + 2

Newlines(text, start) == {j \in 1..start : text[j] = "\n"}

\* 1 plus the number of newlines before offset start.
LineOf(text, start) == 1 + Cardinality(Newlines(text, start))

\* The 1-based offset within its line of the character at offset start.
ColumnOf(text, start) ==
    LET nls == Newlines(text, start)
    IN  IF nls = {} THEN start + 1
        ELSE start + 1 - (CHOOSE j \in nls : \A k \in nls : k <= j)

ParserError == err # NoError /\ err.origin # "get_next_token"

\* C6: an error raised by the parser carries the line and column of the
\* token it rejected: 1 plus the newlines before it, and its 1-based offset
\* in its line; for `=1a` line 1, column 2.
C6_ErrorPosition ==
    /\ ParserError =>
          /\ err.found = token.type
          /\ err.start = token.start
          /\ token.type # "EOF" => read(input)[err.start + 1] = token.value
          /\ token.type = "EOF" => err.start = Len(read(input))
          /\ err.line = LineOf(read(input), err.start)
          /\ err.column = ColumnOf(read(input), err.start)
    /\ (input = <<"=", "1", "a">> /\ Ended) =>
          /\ err.origin = "assign_command"
          /\ err.found = "NUMBER"
          /\ err.line = 1
          /\ err.column = 2

\* A token rejected on a later line, after the first column.
C6_Witness ==
    /\ ParserError
    /\ pc = "returned"
    /\ err.found = "NUMBER"
    /\ err.line >= 2
    /\ err.column >= 2

\* C7: of a character that is not whitespace the lexer makes a VARIABLE
\* only if it is one of a-z, a NUMBER only if it is one of 0-9, an operator
\* token only if it is an operator character, and fails on any other
\* character with an error carrying it, its line and its column.
C7_TokenClasses ==
    (pc = "lex" /\ calls > 0 /\ token.type # "EOF") =>
        LET at == IF err # NoError THEN err.start ELSE token.start
            c  == lexer.text[at + 1]
        IN  /\ token.type = "VARIABLE" => c \in AsciiLower
            /\ token.type = "NUMBER" => c \in AsciiDigit
            /\ token.type \in OperatorChars => c \in OperatorChars
            /\ c \notin (OperatorChars \cup AsciiLower \cup AsciiDigit) =>
                  /\ err # NoError
                  /\ err.found = c
                  /\ err.line = LineOf(lexer.text, at)
                  /\ err.column = ColumnOf(lexer.text, at)

\* A Get command is the next to be generated.
AtGet == AtNode /\ CurrentNode.node = "Get"

\* C8 as stated: generating a Get appends exactly two lines.
C8_GetTwoLines ==
    [][AtGet => Len(gen'.code) = Len(gen.code) + 2]_vars

\* C8 amended: generating a Get on v appends exactly three lines: one that
\* opens a block and reads a line into str, one that parses an integer from
\* str into v, and one that closes the block; it registers v and leaves
\* indent_level unchanged.
C8_GetThreeLines ==
    [][AtGet =>
          LET v   == CurrentNode.var
              ind == [i \in 1..gen.indent_level |-> "    "]
          IN  /\ gen'.code = gen.code \o
                    << ind \o <<"{", " gets(str);">>,
                       ind \o <<"sscanf(str, \"%d\", &", v, ");">>,
                       ind \o <<"}">> >>
              /\ gen'.variables = gen.variables \cup {v}
              /\ gen'.indent_level = gen.indent_level]_vars

\* A Get inside a block has been generated.
C8_Witness ==
    /\ pc = "generate"
    /\ gen.indent_level >= 2
    /\ Len(gen.code) >= 4
    /\ gen.code[Len(gen.code)] = indent(gen) \o <<"}">>
    /\ gen.code[Len(gen.code) - 1] = indent(gen) \o <<"sscanf(str, \"%d\", &", "b", ");">>

\* C9: Parser.program terminates for every source: while it runs, one of
\* its branches applies, and every step of it consumes at least one token (the
\* current token moves on in the text, which is finite), raises, or returns;
\* it returns only at EOF with every character consumed; a pending "{", if
\* or while at EOF raises; a failure leaves no tree.
C9_ParserTerminates ==
    /\ [](pc = "parse" =>
             /\ stack # <<>>
             /\ stack[Len(stack)].kind = "program"
             /\ token.start <= Len(lexer.text)
             /\ token.type = "EOF" <=> token.start = Len(lexer.text))
    /\ [][pc = "parse" =>
             \/ pc' = "raised"
             \/ pc' = "parsed"
             \/ pc' = "parse" /\ token'.start > token.start]_vars
    /\ [][(pc = "parse" /\ token.type = "EOF" /\ stack[1].kind # "program") =>
             pc' = "raised"]_vars
    /\ [](pc = "parsed" =>
             /\ ast_root.node = "Program"
             /\ token.type = "EOF"
             /\ lexer.pos = Len(lexer.text))
    /\ [](pc = "raised" => err # NoError)
    /\ [](err # NoError =>
             /\ pc \in {"raised", "returned", "crashed"}
             /\ ast_root = NoNode
             /\ stack = <<>>
             /\ gen.code = <<>>)

\* An unclosed "{" inside a loop body met EOF and the parser raised.
C9_Witness ==
    /\ pc = "raised"
    /\ err.origin = "command"
    /\ err.found = "EOF"
    /\ \E i \in 1..Len(lexer.text) : lexer.text[i] = "{"
    /\ \A i \in 1..Len(lexer.text) : lexer.text[i] # "}"

\* The fragments of the emitted lines, in order.
Fragments == concat(gen.code)

Count(frags, k, b) == Cardinality({j \in 1..k : frags[j] = b})

\* Open blocks after the first k fragments.
Depth(frags, k) == Count(frags, k, "{") - Count(frags, k, "}")

\* Between two top-level commands, or after the last.
TopLevel ==
    \/ pc = "generate" /\ Len(work) = 1 /\ work[1].kind = "program"
    \/ pc \in {"generated", "write", "done"}

\* C10: in every prefix of CodeGenerator.code there are at least as many "{"
\* as "}", as many of each once a top-level command is generated, and
\* indent_level never drops below 1 and is 1 again after each top-level
\* command.
C10_BraceBalanced ==
    /\ \A k \in 0..Len(Fragments) : Depth(Fragments, k) >= 0
    /\ gen.indent_level >= 1
    /\ TopLevel => Depth(Fragments, Len(Fragments)) = 0 /\ gen.indent_level = 1

\* Three blocks are open.
C10_Witness ==
    /\ pc = "generate"
    /\ gen.indent_level >= 4
    /\ Depth(Fragments, Len(Fragments)) >= 3

====
